---- MODULE Spec2Model ----
(***************************************************************************)
(* Model of the metrics aggregation and comparison code of the E2EE        *)
(* performance scripts:                                                    *)
(*   src/e2ee/overall_comparison.py   aggregate_metrics, compute_stats,    *)
(*                                    build_bar_data                       *)
(*   src/e2ee/analyze_performance.py  PerformanceAnalyzer.load_data,       *)
(*                                    extract_metrics_timeseries,          *)
(*                                    compare_two_tests                    *)
(*                                                                         *)
(* The functions are pure and the modules keep no global state, so the     *)
(* state of the model is the frame of the call that returned last: its     *)
(* arguments and its return value.  pc names that call.  A                 *)
(* PerformanceAnalyzer keeps the decoded document in self.data between its *)
(* construction and the call of extract_metrics_timeseries.                *)
(*                                                                         *)
(* Numbers.  A Python int is a TLA+ integer.  A Python float is a record   *)
(* [kind, n, d]: kind "num" is the finite value n/d in lowest terms with   *)
(* d > 0, kind "nan" is the IEEE not-a-number.  A number read from JSON is *)
(* such a record too, of kind "int" when the JSON literal is an integer.   *)
(* Arithmetic on finite values is exact rational arithmetic: the rounding  *)
(* of IEEE double arithmetic is not modelled.                              *)
(***************************************************************************)
EXTENDS Integers, Sequences, FiniteSets, TLC

VARIABLES pc, raised,
          files, metrics, total_samples, total_duration_ms,
          arr_before, arr, stats,
          baseline_metrics, e2ee_metrics, metric_key, baseline_vals, e2ee_vals,
          baseline_summary, e2ee_summary, report,
          data_file, self_data, dfs

vars == <<pc, raised, files, metrics, total_samples, total_duration_ms,
          arr_before, arr, stats,
          baseline_metrics, e2ee_metrics, metric_key, baseline_vals, e2ee_vals,
          baseline_summary, e2ee_summary, report,
          data_file, self_data, dfs>>

(***************************************************************************)
(* Bounds of the model                                                     *)
(***************************************************************************)
MaxLen == 3
MaxBarLen == 2
MaxFiles == 2
MaxSeries == 2

(***************************************************************************)
(* Python and numpy numbers                                                *)
(***************************************************************************)
Abs(i) == IF i < 0 THEN -i ELSE i

RECURSIVE GCD(_, _)
GCD(a, b) == IF b = 0 THEN a ELSE GCD(b, a % b)

\* The float n/d, d > 0, in lowest terms.
Frac(n, d) ==
  LET g == GCD(Abs(n), d)
  IN  [kind |-> "num", n |-> n \div g, d |-> d \div g]

nan == [kind |-> "nan", n |-> 0, d |-> 1]

\* A JSON integer literal.
JInt(i) == [kind |-> "int", n |-> i, d |-> 1]

isnan(x) == x.kind = "nan"

\* float(x): an int or a float becomes a float of the same value.
float(x) == IF isnan(x) THEN nan ELSE Frac(x.n, x.d)

\* int(x) of a finite number: truncation toward zero.
int(x) == IF x.n >= 0 THEN x.n \div x.d ELSE -((-x.n) \div x.d)

FAdd(x, y) ==
  IF isnan(x) \/ isnan(y) THEN nan ELSE Frac(x.n * y.d + y.n * x.d, x.d * y.d)

FSub(x, y) ==
  IF isnan(x) \/ isnan(y) THEN nan ELSE Frac(x.n * y.d - y.n * x.d, x.d * y.d)

FMul(x, y) ==
  IF isnan(x) \/ isnan(y) THEN nan ELSE Frac(x.n * y.n, x.d * y.d)

\* x / y for y # 0 (every division of the code is guarded or by a size > 0).
FDiv(x, y) ==
  IF isnan(x) \/ isnan(y) THEN nan
  ELSE IF y.n > 0 THEN Frac(x.n * y.d, x.d * y.n)
       ELSE Frac(-(x.n * y.d), x.d * (-y.n))

\* Comparisons: every comparison with a NaN is false.
FLt(x, y) == ~isnan(x) /\ ~isnan(y) /\ x.n * y.d < y.n * x.d
FLe(x, y) == ~isnan(x) /\ ~isnan(y) /\ x.n * y.d <= y.n * x.d
FGt(x, y) == FLt(y, x)

\* floor(x) of a finite float, as an integer.
Floor(x) == x.n \div x.d

(***************************************************************************)
(* numpy array operations used by compute_stats                            *)
(***************************************************************************)
\* np.asarray(arr, dtype=float): a float array of the same elements.
np_asarray(a) == [i \in DOMAIN a |-> float(a[i])]

RECURSIVE np_sum(_)
np_sum(a) == IF Len(a) = 0 THEN float(JInt(0)) ELSE FAdd(a[1], np_sum(Tail(a)))

\* Mutant: the sum divided by one more than the number of elements.
np_mean_off_by_one(a) == FDiv(np_sum(a), float(JInt(Len(a) + 1)))

\* arr.mean(): sum of the elements over their number.
np_mean(a) == FDiv(np_sum(a), float(JInt(Len(a))))

RECURSIVE np_min(_)
np_min(a) ==
  IF Len(a) = 1 THEN a[1]
  ELSE LET m == np_min(Tail(a)) IN IF FLe(a[1], m) THEN a[1] ELSE m

RECURSIVE np_max(_)
np_max(a) ==
  IF Len(a) = 1 THEN a[1]
  ELSE LET m == np_max(Tail(a)) IN IF FLe(m, a[1]) THEN a[1] ELSE m

\* Insert x in the ascending sequence s.
RECURSIVE Insert(_, _)
Insert(x, s) ==
  IF Len(s) = 0 THEN <<x>>
  ELSE IF FLe(x, s[1]) THEN <<x>> \o s
       ELSE <<s[1]>> \o Insert(x, Tail(s))

\* Mutant: the array is used in the order it came.
np_sort_skipped(a) == a

\* The ascending copy np.quantile works on.
RECURSIVE np_sort(_)
np_sort(a) == IF Len(a) = 0 THEN <<>> ELSE Insert(a[1], np_sort(Tail(a)))

\* numpy's _lerp(a, b, t): a + (b - a) * t, computed from the upper end
\* when t >= 0.5.
np_lerp(a, b, t) ==
  LET diff_b_a == FSub(b, a)
      one      == float(JInt(1))
      half     == Frac(1, 2)
  IN  IF FLe(half, t) THEN FSub(b, FMul(diff_b_a, FSub(one, t)))
      ELSE FAdd(a, FMul(diff_b_a, t))

\* Mutant: the lower neighbour of the virtual index, without interpolation.
np_quantile_lower(a, q) ==
  LET s == np_sort(a)
  IN  s[Floor(FMul(q, float(JInt(Len(s) - 1)))) + 1]

\* np.quantile(a, q), method "linear", for a non-empty a: the virtual index
\* q * (n - 1) in the sorted copy, interpolated between its two neighbours.
np_quantile(a, q) ==
  LET s         == np_sort(a)
      n         == Len(s)
      virtual   == FMul(q, float(JInt(n - 1)))
      previous  == Floor(virtual)
      next      == IF previous + 1 <= n - 1 THEN previous + 1 ELSE n - 1
      gamma     == FSub(virtual, float(JInt(previous)))
  IN  np_lerp(s[previous + 1], s[next + 1], gamma)

\* The caller's array after np.quantile(a, q) returned: with the default
\* overwrite_input=False numpy partitions a copy and leaves a alone.
np_quantile_input(a, overwrite_input) ==
  IF overwrite_input THEN np_sort(a) ELSE a

(***************************************************************************)
(* overall_comparison.py                                                   *)
(***************************************************************************)
METRIC_KEYS == <<"latency", "jitter", "packetLoss", "bitrate", "frameRate">>

MetricKeySet == {METRIC_KEYS[i] : i \in DOMAIN METRIC_KEYS}

\* compute_stats(arr): mean, p50, p95, p99, min, max and count of a 1D array.
compute_stats(a) ==
  LET v == np_asarray(a)
  IN  IF Len(v) = 0
      THEN [mean |-> nan, p50 |-> nan, p95 |-> nan, p99 |-> nan,
            min |-> nan, max |-> nan, count |-> 0]
      ELSE [mean  |-> float(np_mean(v)),
            p50   |-> float(np_quantile(v, Frac(50, 100))),
            p95   |-> float(np_quantile(v, Frac(95, 100))),
            p99   |-> float(np_quantile(v, Frac(99, 100))),
            min   |-> float(np_min(v)),
            max   |-> float(np_max(v)),
            count |-> Len(v)]

\* dict.get(key, default)
Get(d, key, default) == IF key \in DOMAIN d THEN d[key] ELSE default

\* The empty dict {} (and the empty list []).
EmptyDict == <<>>

\* json.load(f): the decoded document, for a file whose text is JSON.  A
\* file is [valid, data]: valid tells whether its text decodes.
json_load(file) == file.data

\* [point["value"] for point in series]
point_values(series) == [i \in DOMAIN series |-> series[i].value]

\* Mutant: the pass over METRIC_KEYS stops at the first key the file lacks.
extend_metrics_break(lists, m) ==
  [key \in MetricKeySet |->
     LET pos == CHOOSE i \in DOMAIN METRIC_KEYS : METRIC_KEYS[i] = key
     IN  IF \A i \in 1..pos : METRIC_KEYS[i] \in DOMAIN m
         THEN lists[key] \o point_values(m[key])
         ELSE lists[key]]

\* Mutant: the values of a file replace the values gathered so far.
extend_metrics_assign(lists, m) ==
  [key \in MetricKeySet |->
     IF key \notin DOMAIN m THEN lists[key] ELSE point_values(m[key])]

\* Lines 42-45: one pass over METRIC_KEYS for the metrics dict m of a file;
\* lists maps every metric key to the values gathered so far.
extend_metrics(lists, m) ==
  [key \in MetricKeySet |->
     IF key \notin DOMAIN m THEN lists[key]
     ELSE lists[key] \o point_values(m[key])]

\* Mutant: without summary.samples a file adds no samples.
samples_of_no_fallback(data) ==
  LET summary == Get(data, "summary", EmptyDict)
  IN  IF "samples" \in DOMAIN summary THEN int(summary["samples"]) ELSE 0

\* Lines 47-48: the samples a file adds to total_samples.
samples_of(data) ==
  LET m       == Get(data, "metrics", EmptyDict)
      summary == Get(data, "summary", EmptyDict)
  IN  IF "samples" \in DOMAIN summary THEN int(summary["samples"])
      ELSE Len(Get(m, "latency", <<>>))

\* Lines 47, 49: the duration a file adds to total_duration_ms.
duration_of(data) ==
  LET summary == Get(data, "summary", EmptyDict)
  IN  IF "duration" \in DOMAIN summary THEN int(summary["duration"]) ELSE 0

\* Mutant: a file that does not decode is passed over (json.load wrapped in
\* try/except with continue) and the loop goes on with the next file.
RECURSIVE aggregate_loop_skip(_, _, _)
aggregate_loop_skip(fs, i, acc) ==
  IF i > Len(fs) THEN acc
  ELSE IF ~fs[i].valid THEN aggregate_loop_skip(fs, i + 1, acc)
  ELSE LET data == json_load(fs[i])
           m    == Get(data, "metrics", EmptyDict)
       IN  aggregate_loop_skip(fs, i + 1,
             [raised            |-> "none",
              metrics           |-> extend_metrics(acc.metrics, m),
              total_samples     |-> acc.total_samples + samples_of(data),
              total_duration_ms |-> acc.total_duration_ms + duration_of(data)])

\* Lines 35-49: the loop over files from position i on.  acc holds the
\* locals metrics, total_samples and total_duration_ms; raised names the
\* exception that left the loop, "none" when it ran to its end.
RECURSIVE aggregate_loop(_, _, _)
aggregate_loop(fs, i, acc) ==
  IF i > Len(fs) THEN acc
  ELSE IF ~fs[i].valid THEN [acc EXCEPT !.raised = "JSONDecodeError"]
  ELSE LET data == json_load(fs[i])
           m    == Get(data, "metrics", EmptyDict)
       IN  aggregate_loop(fs, i + 1,
             [raised            |-> "none",
              metrics           |-> extend_metrics(acc.metrics, m),
              total_samples     |-> acc.total_samples + samples_of(data),
              total_duration_ms |-> acc.total_duration_ms + duration_of(data)])

\* aggregate_metrics(files): the returned (metrics, total_samples,
\* total_duration_ms), metrics as float arrays; or the exception raised.
aggregate_metrics(fs) ==
  LET acc == aggregate_loop(fs, 1,
               [raised            |-> "none",
                metrics           |-> [key \in MetricKeySet |-> <<>>],
                total_samples     |-> 0,
                total_duration_ms |-> 0])
  IN  [acc EXCEPT !.metrics = [k \in MetricKeySet |-> np_asarray(acc.metrics[k])]]

\* The caller's array once compute_stats(arr) returned: np.asarray hands a
\* float array through as it is, and mean, min, max and the np.quantile
\* calls (overwrite_input left at its default) do not write to it.
compute_stats_input(a) == np_quantile_input(a, FALSE)

\* build_bar_data(baseline_metrics, e2ee_metrics, metric_key): the arrays
\* [mean, p95, p99] of the baseline and of the E2EE configuration.
build_bar_data(b_metrics, e_metrics, key) ==
  LET b_stats == compute_stats(b_metrics[key])
      e_stats == compute_stats(e_metrics[key])
  IN  [baseline_vals |-> np_asarray(<<b_stats.mean, b_stats.p95, b_stats.p99>>),
       e2ee_vals     |-> np_asarray(<<e_stats.mean, e_stats.p95, e_stats.p99>>)]

(***************************************************************************)
(* analyze_performance.py                                                  *)
(***************************************************************************)
\* metrics of compare_two_tests (line 288)
compare_metrics == <<"latency", "jitter", "packetLoss", "bitrate">>

\* Lines 335-338, for one metric: the two means, their difference and the
\* percent change printed by compare_two_tests.
compare_metric(b_summary, e_summary, metric) ==
  LET b_mean == float(Get(Get(b_summary, metric, EmptyDict), "mean", JInt(0)))
      e_mean == float(Get(Get(e_summary, metric, EmptyDict), "mean", JInt(0)))
      diff   == FSub(e_mean, b_mean)
      pct    == IF FGt(b_mean, float(JInt(0)))
                THEN FMul(FDiv(diff, b_mean), float(JInt(100)))
                ELSE JInt(0)
  IN  [b_mean |-> b_mean, e_mean |-> e_mean, diff |-> diff, pct |-> pct]

\* Lines 333-343: the numerical comparison, one entry per metric.
compare_two_tests(b_summary, e_summary) ==
  [i \in DOMAIN compare_metrics |->
     compare_metric(b_summary, e_summary, compare_metrics[i])]

\* PerformanceAnalyzer.load_data (lines 20-23): the decoded document, or the
\* exception json.load raised.
load_data(file) ==
  IF file.valid THEN [raised |-> "none", data |-> json_load(file)]
  ELSE [raised |-> "JSONDecodeError", data |-> EmptyDict]

\* The metric names of extract_metrics_timeseries (line 35).
timeseries_metrics == <<"latency", "jitter", "packetLoss", "bitrate", "frameRate">>

TimeseriesKeySet == {timeseries_metrics[i] : i \in DOMAIN timeseries_metrics}

\* pd.to_datetime(t, unit='ms'): the instant t milliseconds after the epoch,
\* a datetime and no longer a number.
pd_to_datetime(t) == [kind |-> "datetime64", epoch_ms |-> int(t)]

\* A column of numbers of a DataFrame: int64 when every element is an
\* integer, float64 otherwise.
pd_column(xs) ==
  IF \A i \in DOMAIN xs : xs[i].kind = "int" THEN xs
  ELSE [i \in DOMAIN xs |-> float(xs[i])]

\* pd.DataFrame(points) of a list of {timestamp, value} dicts: one row per
\* point in list order, under the index 0, 1, ..., len(points) - 1.
pd_DataFrame(points) ==
  [index     |-> [i \in DOMAIN points |-> i - 1],
   timestamp |-> pd_column([i \in DOMAIN points |-> points[i].timestamp]),
   value     |-> pd_column([i \in DOMAIN points |-> points[i].value])]

\* Mutant: the elapsed time is the distance of the raw timestamp from the
\* timestamp of the first sample.
elapsed_sec_from_timestamp(df, interval) ==
  [i \in DOMAIN df.index |->
     FDiv(FSub(float(df.timestamp[i]), float(df.timestamp[1])),
          float(JInt(1000)))]

\* Line 39: df.index * (interval / 1000).
elapsed_sec(df, interval) ==
  [i \in DOMAIN df.index |->
     FMul(float(JInt(df.index[i])), FDiv(float(interval), float(JInt(1000))))]

\* Lines 37-40: the frame of one metric series.
timeseries_frame(points, interval) ==
  LET df == pd_DataFrame(points)
  IN  [index       |-> df.index,
       timestamp   |-> [i \in DOMAIN df.timestamp |->
                          pd_to_datetime(df.timestamp[i])],
       value       |-> df.value,
       elapsed_sec |-> elapsed_sec(df, interval)]

\* extract_metrics_timeseries (lines 25-42) for self.data = d: None when d
\* has no "metrics", else the dict of the frames of the non-empty series.
extract_metrics_timeseries(d) ==
  IF "metrics" \notin DOMAIN d THEN [is_none |-> TRUE, frames |-> EmptyDict]
  ELSE LET m        == d["metrics"]
           interval == Get(d, "interval", JInt(1000))
           names    == {k \in TimeseriesKeySet :
                          k \in DOMAIN m /\ Len(m[k]) > 0}
       IN  [is_none |-> FALSE,
            frames  |-> [k \in names |-> timeseries_frame(m[k], interval)]]

(***************************************************************************)
(* Inputs of the bounded model                                             *)
(***************************************************************************)
\* The sample values 10, 20, ..., 10 * k in ascending order.
Ramp(k) == [i \in 1..k |-> 10 * i]

Reverse(s) == [i \in DOMAIN s |-> s[Len(s) + 1 - i]]

\* The sample values of the latency series of the input documents.
LatencySeries ==
  {Ramp(k) : k \in 0..MaxSeries} \cup {Reverse(Ramp(2)), <<30>>}

\* A metric series with the given sample values, one sample per second.
Points(vs) ==
  [i \in DOMAIN vs |-> [timestamp |-> JInt(1000 * i), value |-> JInt(vs[i])]]

\* The "metrics" dicts of the input documents: latency only, jitter only,
\* latency and bitrate, and every metric kind.
MetricDicts ==
  {[latency |-> Points(vs)] : vs \in LatencySeries}
    \cup {[jitter |-> Points(<<20>>)],
          [latency |-> Points(Ramp(2)), bitrate |-> Points(Reverse(Ramp(2)))],
          [k \in MetricKeySet |-> Points(<<30>>)]}

\* The documents with a "summary", as aggregate_metrics reads it: without
\* "metrics", and with a latency series of two samples.
SummaryDocuments ==
  {[summary |-> [samples |-> JInt(5)]],
   [summary |-> [samples |-> Frac(7, 2), duration |-> Frac(5001, 2)]],
   [metrics |-> [latency |-> Points(Ramp(2))],
    summary |-> [duration |-> JInt(2000)]],
   [metrics |-> [latency |-> Points(Ramp(2))],
    summary |-> [samples |-> JInt(5), duration |-> JInt(2000)]]}

Documents ==
  {EmptyDict}
    \cup {[metrics |-> m] : m \in MetricDicts}
    \cup SummaryDocuments

\* The files of a directory: JSON documents, and a file that does not decode.
Files ==
  {[valid |-> TRUE, data |-> d] : d \in Documents}
    \cup {[valid |-> FALSE, data |-> EmptyDict]}

FileLists == UNION {[1..n -> Files] : n \in 0..MaxFiles}

ArrValues == {Frac(-10, 1), Frac(0, 1), Frac(15, 2), Frac(20, 1)}

ScenarioBaseline == np_asarray(<<JInt(10), JInt(20), JInt(30), JInt(40), JInt(50)>>)
ScenarioTreatment == np_asarray(<<JInt(15), JInt(25), JInt(35), JInt(45), JInt(55)>>)

\* The float arrays compute_stats is called with.
ArrInputs ==
  UNION {[1..k -> ArrValues] : k \in 0..MaxLen}
    \cup {ScenarioBaseline, ScenarioTreatment}

BarValues == {Frac(0, 1), Frac(20, 1)}

\* The float arrays build_bar_data finds under metric_key.
BarArrs == UNION {[1..k -> BarValues] : k \in 0..MaxBarLen}

\* Raw timestamps of a session whose samples arrive late and with gaps.
Irregular(i) == 7000 + 300 * i * i

\* A metric series with the given sample values and irregular timestamps.
IrregularPoints(vs) ==
  [i \in DOMAIN vs |-> [timestamp |-> JInt(Irregular(i)), value |-> JInt(vs[i])]]

\* The "metrics" dicts of the documents a PerformanceAnalyzer is built on:
\* a latency series with regular or with irregular timestamps, two kinds,
\* every kind, an empty series next to a non-empty one, a series with a
\* value that is not an integer, and a kind that is not extracted.
AnalyzerMetricDicts ==
  {[latency |-> Points(vs)] : vs \in LatencySeries}
    \cup {[latency |-> IrregularPoints(vs)] : vs \in LatencySeries}
    \cup {[latency |-> Points(Ramp(2)),
           bitrate |-> IrregularPoints(Reverse(Ramp(2)))],
          [k \in TimeseriesKeySet |-> Points(<<30>>)],
          [latency |-> <<>>, jitter |-> IrregularPoints(<<20, 10>>)],
          [jitter |-> <<[timestamp |-> JInt(1000), value |-> Frac(5, 2)],
                        [timestamp |-> JInt(1900), value |-> JInt(3)]>>],
          [throughput |-> Points(<<30>>)]}

\* The "interval" entries of a document, in milliseconds.
Intervals == {JInt(1000), JInt(500), JInt(250)}

AnalyzerDocuments ==
  {EmptyDict, [interval |-> JInt(500)]}
    \cup {[metrics |-> m] : m \in AnalyzerMetricDicts}
    \cup {[metrics |-> m, interval |-> iv] :
            m \in AnalyzerMetricDicts, iv \in Intervals}

\* The files a PerformanceAnalyzer is built on.
AnalyzerFiles ==
  {[valid |-> TRUE, data |-> d] : d \in AnalyzerDocuments}
    \cup {[valid |-> FALSE, data |-> EmptyDict]}

\* The "mean" entries of a summary: missing, or a JSON number.
MeanValues == {JInt(-10), JInt(0), JInt(30), JInt(35), Frac(5, 2), nan}

MetricSummaries == {EmptyDict} \cup {[mean |-> v] : v \in MeanValues}

CompareKeySet == {compare_metrics[i] : i \in DOMAIN compare_metrics}

\* The "summary" dicts compare_two_tests reads: at most one metric entry.
CompareSummaries ==
  {EmptyDict}
    \cup {[k \in {key} |-> ms] : key \in CompareKeySet, ms \in MetricSummaries}

(***************************************************************************)
(* State machine                                                           *)
(***************************************************************************)
NoMetrics == [k \in MetricKeySet |-> <<>>]

\* No file and no document.
NoFile == [valid |-> FALSE, data |-> EmptyDict]

\* extract_metrics_timeseries has not returned.
NoTimeseries == [is_none |-> TRUE, frames |-> EmptyDict]

\* No call has returned yet: every frame is empty.
Init ==
  /\ pc = "start"
  /\ raised = "none"
  /\ files = <<>>
  /\ metrics = NoMetrics
  /\ total_samples = 0
  /\ total_duration_ms = 0
  /\ arr_before = <<>>
  /\ arr = <<>>
  /\ stats = EmptyDict
  /\ baseline_metrics = NoMetrics
  /\ e2ee_metrics = NoMetrics
  /\ metric_key = "latency"
  /\ baseline_vals = <<>>
  /\ e2ee_vals = <<>>
  /\ baseline_summary = EmptyDict
  /\ e2ee_summary = EmptyDict
  /\ report = <<>>
  /\ data_file = NoFile
  /\ self_data = EmptyDict
  /\ dfs = NoTimeseries

AggregateFrame == <<files, metrics, total_samples, total_duration_ms>>
StatsFrame == <<arr_before, arr, stats>>
BarFrame == <<baseline_metrics, e2ee_metrics, metric_key, baseline_vals, e2ee_vals>>
CompareFrame == <<baseline_summary, e2ee_summary, report>>
AnalyzerFrame == <<data_file, self_data, dfs>>

\* A call of aggregate_metrics(files).  When json.load raises, the exception
\* leaves the function and nothing is returned.
AggregateMetrics ==
  \E fs \in FileLists :
    LET r == aggregate_metrics(fs)
    IN  /\ pc = "start"
        /\ pc' = "aggregate_metrics"
        /\ files' = fs
        /\ raised' = r.raised
        /\ metrics' = IF r.raised = "none" THEN r.metrics ELSE NoMetrics
        /\ total_samples' = IF r.raised = "none" THEN r.total_samples ELSE 0
        /\ total_duration_ms' =
             IF r.raised = "none" THEN r.total_duration_ms ELSE 0
        /\ UNCHANGED <<StatsFrame, BarFrame, CompareFrame, AnalyzerFrame>>

\* A call of compute_stats(arr).
ComputeStats ==
  \E a \in ArrInputs :
    /\ pc = "start"
    /\ pc' = "compute_stats"
    /\ raised' = "none"
    /\ arr_before' = a
    /\ arr' = compute_stats_input(a)
    /\ stats' = compute_stats(a)
    /\ UNCHANGED <<AggregateFrame, BarFrame, CompareFrame, AnalyzerFrame>>

\* A call of build_bar_data(baseline_metrics, e2ee_metrics, metric_key).
BuildBarData ==
  \E b \in BarArrs, e \in BarArrs, key \in MetricKeySet :
    LET b_metrics == [NoMetrics EXCEPT ![key] = b]
        e_metrics == [NoMetrics EXCEPT ![key] = e]
        r         == build_bar_data(b_metrics, e_metrics, key)
    IN  /\ pc = "start"
        /\ pc' = "build_bar_data"
        /\ raised' = "none"
        /\ baseline_metrics' = b_metrics
        /\ e2ee_metrics' = e_metrics
        /\ metric_key' = key
        /\ baseline_vals' = r.baseline_vals
        /\ e2ee_vals' = r.e2ee_vals
        /\ UNCHANGED <<AggregateFrame, StatsFrame, CompareFrame, AnalyzerFrame>>

\* A call of compare_two_tests(baseline_file, e2ee_file), from the summaries
\* of the two decoded files to the numbers it prints.
CompareTwoTests ==
  \E b \in CompareSummaries, e \in CompareSummaries :
    /\ pc = "start"
    /\ pc' = "compare_two_tests"
    /\ raised' = "none"
    /\ baseline_summary' = b
    /\ e2ee_summary' = e
    /\ report' = compare_two_tests(b, e)
    /\ UNCHANGED <<AggregateFrame, StatsFrame, BarFrame, AnalyzerFrame>>

\* PerformanceAnalyzer(data_file): __init__ keeps the path and sets self.data
\* to the document load_data returns; when json.load raises, the exception
\* leaves the constructor and there is no analyzer.
LoadData ==
  \E file \in AnalyzerFiles :
    LET r == load_data(file)
    IN  /\ pc = "start"
        /\ pc' = "load_data"
        /\ data_file' = file
        /\ raised' = r.raised
        /\ self_data' = r.data
        /\ UNCHANGED <<AggregateFrame, StatsFrame, BarFrame, CompareFrame, dfs>>

\* A call of extract_metrics_timeseries() on the analyzer just built.
ExtractMetricsTimeseries ==
  /\ pc = "load_data"
  /\ raised = "none"
  /\ pc' = "extract_metrics_timeseries"
  /\ dfs' = extract_metrics_timeseries(self_data)
  /\ UNCHANGED <<raised, data_file, self_data>>
  /\ UNCHANGED <<AggregateFrame, StatsFrame, BarFrame, CompareFrame>>

\* The caller is done with the returned values (or with the exception):
\* the frame is dropped and the next call starts from empty frames.
Return ==
  /\ pc # "start"
  /\ pc' = "start"
  /\ raised' = "none"
  /\ files' = <<>>
  /\ metrics' = NoMetrics
  /\ total_samples' = 0
  /\ total_duration_ms' = 0
  /\ arr_before' = <<>>
  /\ arr' = <<>>
  /\ stats' = EmptyDict
  /\ baseline_metrics' = NoMetrics
  /\ e2ee_metrics' = NoMetrics
  /\ metric_key' = "latency"
  /\ baseline_vals' = <<>>
  /\ e2ee_vals' = <<>>
  /\ baseline_summary' = EmptyDict
  /\ e2ee_summary' = EmptyDict
  /\ report' = <<>>
  /\ data_file' = NoFile
  /\ self_data' = EmptyDict
  /\ dfs' = NoTimeseries

\* overall_comparison.py
Next == AggregateMetrics \/ ComputeStats \/ BuildBarData \/ Return

Spec == Init /\ [][Next]_vars

\* analyze_performance.py
NextAnalyze == LoadData \/ ExtractMetricsTimeseries \/ CompareTwoTests \/ Return

SpecAnalyze == Init /\ [][NextAnalyze]_vars

(***************************************************************************)
(* Properties                                                              *)
(***************************************************************************)
\* The "undefined" sentinel of the specification: an absent value, which is
\* not a float (neither a number nor a NaN).
Undefined == [kind |-> "none", n |-> 0, d |-> 1]

StatFields == {"mean", "p50", "p95", "p99", "min", "max"}

Zero == Frac(0, 1)
Hundred == Frac(100, 1)

\* C1: compute_stats of an empty collection returns count = 0 with every
\* statistic equal to the undefined sentinel, count = 0 holds only with all
\* statistics undefined, and no NaN reaches the arrays build_bar_data hands
\* to the plot as if it were a number.
C1_EmptyStatsUndefined ==
  /\ pc = "compute_stats" =>
       /\ Len(arr_before) = 0 => stats.count = 0
       /\ stats.count = 0 <=> \A f \in StatFields : stats[f] = Undefined
  /\ pc = "build_bar_data" =>
       /\ \A i \in DOMAIN baseline_vals : ~isnan(baseline_vals[i])
       /\ \A i \in DOMAIN e2ee_vals : ~isnan(e2ee_vals[i])

\* The mean a summary declares for a metric is missing or a NaN.
MeanUndefined(summary, metric) ==
  LET entry == Get(summary, metric, EmptyDict)
  IN  "mean" \notin DOMAIN entry \/ isnan(entry["mean"])

\* The declared mean of a metric, as a float (for a defined mean).
DeclaredMean(summary, metric) == float(summary[metric]["mean"])

\* C2: when the baseline mean is undefined or exactly zero, the percent
\* change of the comparison is the undefined value, never 0.
C2_PercentChangeGuard ==
  pc = "compare_two_tests" =>
    \A i \in DOMAIN compare_metrics :
      LET metric == compare_metrics[i]
      IN  (\/ MeanUndefined(baseline_summary, metric)
           \/ DeclaredMean(baseline_summary, metric) = Zero)
            => report[i].pct = Undefined

\* C3: when the baseline mean is defined and not zero and the treatment
\* mean is defined, the percent change is
\* (treatment.mean - baseline.mean) / baseline.mean * 100; the means 30 and
\* 35 of the values [10,20,30,40,50] and [15,25,35,45,55] give +5 and
\* 16.66...%.
C3_PercentChangeFormula ==
  /\ compute_stats(ScenarioBaseline).mean = Frac(30, 1)
  /\ compute_stats(ScenarioTreatment).mean = Frac(35, 1)
  /\ pc = "compare_two_tests" =>
       \A i \in DOMAIN compare_metrics :
         LET metric == compare_metrics[i]
         IN  (/\ ~MeanUndefined(baseline_summary, metric)
              /\ ~MeanUndefined(e2ee_summary, metric)
              /\ DeclaredMean(baseline_summary, metric) # Zero)
               => LET b == DeclaredMean(baseline_summary, metric)
                      e == DeclaredMean(e2ee_summary, metric)
                  IN  float(report[i].pct) =
                        FMul(FDiv(FSub(e, b), b), Hundred)

\* C4: delta is treatment.mean - baseline.mean when both means are defined,
\* so that swapping the two sides negates it, and delta is undefined when
\* the mean of either side is undefined.
C4_Delta ==
  pc = "compare_two_tests" =>
    \A i \in DOMAIN compare_metrics :
      LET metric  == compare_metrics[i]
          swapped == compare_two_tests(e2ee_summary, baseline_summary)
      IN  IF MeanUndefined(baseline_summary, metric)
             \/ MeanUndefined(e2ee_summary, metric)
          THEN report[i].diff = Undefined
          ELSE /\ report[i].diff =
                    FSub(DeclaredMean(e2ee_summary, metric),
                         DeclaredMean(baseline_summary, metric))
               /\ swapped[i].diff = FSub(Zero, report[i].diff)

\* The permutations of 1..n.
Perms(n) == {p \in [1..n -> 1..n] : \A i, j \in 1..n : i # j => p[i] # p[j]}

Count(a, v) == Cardinality({i \in DOMAIN a : a[i] = v})

\* a and b hold the same values the same number of times.
SameMultiset(a, b) ==
  /\ Len(a) = Len(b)
  /\ \A i \in DOMAIN a : Count(a, a[i]) = Count(b, a[i])

MaxOf(S) == CHOOSE x \in S : \A y \in S : y <= x

\* The file with the samples of its longest series (and of the series as
\* long) put in another order, for every order.
Reorderings(file) ==
  IF ~file.valid \/ "metrics" \notin DOMAIN file.data THEN {file}
  ELSE LET m == file.data.metrics
           L == MaxOf({0} \cup {Len(m[k]) : k \in DOMAIN m})
       IN  {[file EXCEPT !.data.metrics =
               [k \in DOMAIN m |->
                  IF Len(m[k]) = L THEN [i \in 1..L |-> m[k][sigma[i]]]
                  ELSE m[k]]] : sigma \in Perms(L)}

\* Every list that holds, position by position, a reordering of fs[i].
RECURSIVE ReorderedLists(_)
ReorderedLists(fs) ==
  IF Len(fs) = 0 THEN {<<>>}
  ELSE {<<h>> \o t : h \in Reorderings(Head(fs)), t \in ReorderedLists(Tail(fs))}

\* The lists obtained from fs by permuting the files and reordering the
\* samples inside each file.
Rearrangements(fs) ==
  UNION {ReorderedLists([i \in DOMAIN fs |-> fs[p[i]]]) : p \in Perms(Len(fs))}

C6_PercentilesOrdered ==
  /\ (pc = "compute_stats" /\ Len(arr_before) > 0) =>
       /\ FLe(stats.p50, stats.p95)
       /\ FLe(stats.p95, stats.p99)
  /\ (pc = "aggregate_metrics" /\ raised = "none") =>
       \A k \in MetricKeySet :
         Len(metrics[k]) > 0 =>
           LET st == compute_stats(metrics[k])
           IN  FLe(st.p50, st.p95) /\ FLe(st.p95, st.p99)

\* Witness of C6: three percentiles that differ.
C6_Witness ==
  /\ pc = "compute_stats"
  /\ Len(arr_before) > 0
  /\ FLt(stats.p50, stats.p95)
  /\ FLt(stats.p95, stats.p99)

RECURSIVE ConcatKind(_, _)
ConcatKind(fs, k) ==
  IF Len(fs) = 0 THEN <<>>
  ELSE LET m      == Get(Head(fs).data, "metrics", EmptyDict)
           series == IF k \in DOMAIN m THEN m[k] ELSE <<>>
       IN  [i \in DOMAIN series |-> float(series[i].value)]
             \o ConcatKind(Tail(fs), k)

AllValid(fs) == \A i \in DOMAIN fs : fs[i].valid

\* The two sessions of the scenario: latency series [10, 20] and [30].
ScenarioFiles ==
  <<[valid |-> TRUE, data |-> [metrics |-> [latency |-> Points(<<10, 20>>)]]],
    [valid |-> TRUE, data |-> [metrics |-> [latency |-> Points(<<30>>)]]]>>

\* C8: the values aggregated for a metric kind are the concatenation, in
\* input order, of the values of that kind's series of each session; a
\* session without the kind adds nothing and raises no error; the latency
\* series [10, 20] and [30] aggregate to [10, 20, 30], count 3, mean 20.
C8_Concatenation ==
  (pc = "aggregate_metrics" /\ AllValid(files)) =>
    /\ raised = "none"
    /\ \A k \in MetricKeySet : metrics[k] = ConcatKind(files, k)
    /\ files = ScenarioFiles =>
         /\ metrics["latency"] = <<Frac(10, 1), Frac(20, 1), Frac(30, 1)>>
         /\ compute_stats(metrics["latency"]).count = 3
         /\ compute_stats(metrics["latency"]).mean = Frac(20, 1)

\* Witness of C8: a session with latency and bitrate values is followed by
\* a session that has jitter values only.
C8_Witness ==
  /\ pc = "aggregate_metrics"
  /\ raised = "none"
  /\ Len(files) = 2
  /\ DOMAIN Get(files[1].data, "metrics", EmptyDict) = {"latency", "bitrate"}
  /\ DOMAIN Get(files[2].data, "metrics", EmptyDict) = {"jitter"}
  /\ Len(metrics["latency"]) >= 2
  /\ Len(metrics["bitrate"]) >= 2
  /\ Len(metrics["jitter"]) = 1
  /\ Len(metrics["frameRate"]) = 0

RECURSIVE SumOver(_, _)
SumOver(f, S) ==
  IF S = {} THEN 0
  ELSE LET x == CHOOSE y \in S : TRUE IN f[x] + SumOver(f, S \ {x})

HasDeclared(file, field) ==
  "summary" \in DOMAIN file.data /\ field \in DOMAIN file.data.summary

\* The declared summary value, as the integer int() makes of it.
Declared(file, field) ==
  LET v == file.data.summary[field]
  IN  IF v.n >= 0 THEN v.n \div v.d ELSE -((-v.n) \div v.d)

LatencyLen(file) ==
  IF "metrics" \in DOMAIN file.data /\ "latency" \in DOMAIN file.data.metrics
  THEN Len(file.data.metrics["latency"]) ELSE 0

\* C9 as claimed: both totals are sums over the sessions of the declared
\* summary value when present, and otherwise of the length of the latency
\* series.
C9_TotalsFallBackToLatency ==
  (pc = "aggregate_metrics" /\ raised = "none") =>
    /\ total_samples =
         SumOver([i \in DOMAIN files |->
                    IF HasDeclared(files[i], "samples")
                    THEN Declared(files[i], "samples")
                    ELSE LatencyLen(files[i])], DOMAIN files)
    /\ total_duration_ms =
         SumOver([i \in DOMAIN files |->
                    IF HasDeclared(files[i], "duration")
                    THEN Declared(files[i], "duration")
                    ELSE LatencyLen(files[i])], DOMAIN files)

\* C9 as amended: total_samples sums the declared summary.samples when
\* present and otherwise the length of the latency series (0 without one);
\* total_duration_ms sums the declared summary.duration when present and
\* otherwise 0.  A declared value is used whatever the series length is.
C9_Totals ==
  (pc = "aggregate_metrics" /\ raised = "none") =>
    /\ total_samples =
         SumOver([i \in DOMAIN files |->
                    IF HasDeclared(files[i], "samples")
                    THEN Declared(files[i], "samples")
                    ELSE LatencyLen(files[i])], DOMAIN files)
    /\ total_duration_ms =
         SumOver([i \in DOMAIN files |->
                    IF HasDeclared(files[i], "duration")
                    THEN Declared(files[i], "duration")
                    ELSE 0], DOMAIN files)

\* Witness of C9: a session that declares 5 samples and 2000 ms over a
\* latency series of 2 samples, and a session without summary that has
\* latency samples.
C9_Witness ==
  /\ pc = "aggregate_metrics"
  /\ raised = "none"
  /\ Len(files) = 2
  /\ HasDeclared(files[1], "samples")
  /\ HasDeclared(files[1], "duration")
  /\ LatencyLen(files[1]) = 2
  /\ Declared(files[1], "samples") = 5
  /\ "summary" \notin DOMAIN files[2].data
  /\ LatencyLen(files[2]) = 1
  /\ total_samples = 6
  /\ total_duration_ms = 2000

IsAscending(s) == \A i \in 1..(Len(s) - 1) : FLe(s[i], s[i + 1])

\* A sorted copy of a: an ascending arrangement of its elements.
SortedCopy(a) ==
  CHOOSE s \in {[i \in DOMAIN a |-> a[p[i]]] : p \in Perms(Len(a))} :
    IsAscending(s)

\* The linear-interpolation order statistic of a at q = q100 / 100: in the
\* sorted copy, the lower neighbour of the virtual index q * (n - 1) plus
\* the fractional part of the index times the gap to the upper neighbour.
Interpolated(a, q100) ==
  LET s     == SortedCopy(a)
      n     == Len(s)
      whole == (q100 * (n - 1)) \div 100
      part  == (q100 * (n - 1)) % 100
      lower == s[whole + 1]
      upper == s[IF whole + 2 <= n THEN whole + 2 ELSE n]
  IN  FAdd(lower, FMul(Frac(part, 100), FSub(upper, lower)))

\* C10: for a non-empty collection p50, p95 and p99 are the
\* linear-interpolation order statistics of a sorted copy at the virtual
\* index q * (n - 1), the caller's sequence is left as it was, and a single
\* value v gives mean = p50 = p95 = p99 = min = max = v with count = 1.
C10_LinearInterpolation ==
  pc = "compute_stats" =>
    /\ arr = arr_before
    /\ Len(arr_before) > 0 =>
         /\ stats.p50 = Interpolated(arr_before, 50)
         /\ stats.p95 = Interpolated(arr_before, 95)
         /\ stats.p99 = Interpolated(arr_before, 99)
    /\ Len(arr_before) = 1 =>
         /\ stats.count = 1
         /\ \A f \in StatFields : stats[f] = arr_before[1]

\* Witness of C10: three values that are not in ascending order, whose p95
\* and p99 fall between two sorted neighbours.
C10_Witness ==
  /\ pc = "compute_stats"
  /\ Len(arr_before) = 3
  /\ ~IsAscending(arr_before)
  /\ \A i \in DOMAIN arr_before :
       stats.p95 # arr_before[i] /\ stats.p99 # arr_before[i]
  /\ stats.p95 # stats.p99

(***************************************************************************)
(* C11: a source that does not decode                                      *)
(***************************************************************************)
\* The files of fs before the first one that does not decode.
RECURSIVE DecodedPrefix(_)
DecodedPrefix(fs) ==
  IF Len(fs) = 0 \/ ~Head(fs).valid THEN <<>>
  ELSE <<Head(fs)>> \o DecodedPrefix(Tail(fs))

\* The files of fs that decode, in order.
DecodableFiles(fs) == SelectSeq(fs, LAMBDA file : file.valid)

\* What the caller of aggregate_metrics holds once the call is over.
Returned ==
  [metrics           |-> metrics,
   total_samples     |-> total_samples,
   total_duration_ms |-> total_duration_ms]

NothingReturned ==
  [metrics |-> NoMetrics, total_samples |-> 0, total_duration_ms |-> 0]

\* The (metrics, total_samples, total_duration_ms) of a complete pass over fs.
AggregateOf(fs) ==
  LET r == aggregate_metrics(fs)
  IN  [metrics           |-> r.metrics,
       total_samples     |-> r.total_samples,
       total_duration_ms |-> r.total_duration_ms]

\* C11: when one of the files given to aggregate_metrics does not decode,
\* the call ends with the decoding exception and returns nothing to its
\* caller: neither the aggregate of the files before the failing one nor
\* the aggregate of the remaining files with the failing one left out.
C11_DecodeFailurePropagates ==
  (pc = "aggregate_metrics" /\ ~AllValid(files)) =>
    /\ raised = "JSONDecodeError"
    /\ Returned = NothingReturned
    /\ AggregateOf(DecodedPrefix(files)) # NothingReturned =>
         Returned # AggregateOf(DecodedPrefix(files))
    /\ AggregateOf(DecodableFiles(files)) # NothingReturned =>
         Returned # AggregateOf(DecodableFiles(files))

\* Witness of C11: a session with latency samples was read before the file
\* that does not decode, and the call ended with the exception.
C11_Witness ==
  /\ pc = "aggregate_metrics"
  /\ raised = "JSONDecodeError"
  /\ Len(files) = 2
  /\ files[1].valid
  /\ ~files[2].valid
  /\ AggregateOf(DecodedPrefix(files)).total_samples > 0
  /\ Len(AggregateOf(DecodedPrefix(files)).metrics["latency"]) > 0

(***************************************************************************)
(* C12: the elapsed-time axis of a session                                 *)
(***************************************************************************)
\* The sampling interval of a session in milliseconds: its "interval", 1000
\* when it has none.
IntervalMs(d) == IF "interval" \in DOMAIN d THEN d["interval"] ELSE JInt(1000)

\* The non-empty series of a session among the five metric kinds.
NonEmptySeries(d) ==
  LET m == Get(d, "metrics", EmptyDict)
  IN  {k \in TimeseriesKeySet : k \in DOMAIN m /\ Len(m[k]) > 0}

\* The session d with the raw timestamp of every sample replaced by the
\* timestamp ts gives for the sample's position.
Retimed(d, ts(_)) ==
  [d EXCEPT !["metrics"] =
     [k \in DOMAIN d["metrics"] |->
        [i \in DOMAIN d["metrics"][k] |->
           [d["metrics"][k][i] EXCEPT !.timestamp = JInt(ts(i))]]]]

OnTheSecond(i) == 1000 * i

\* C12: every non-empty metric series of the session has a frame, and in it
\* the elapsed time of the sample at 0-based position i is
\* i * intervalMs / 1000 seconds, intervalMs being the session's interval
\* and 1000 when the session has none; the same session with other raw
\* timestamps gets the same elapsed times; the values of the frame are the
\* values of the series in the order of the series.
C12_ElapsedFromIndexAndInterval ==
  (pc = "extract_metrics_timeseries" /\ "metrics" \in DOMAIN self_data) =>
    /\ ~dfs.is_none
    /\ DOMAIN dfs.frames = NonEmptySeries(self_data)
    /\ \A k \in NonEmptySeries(self_data) :
         LET series == self_data["metrics"][k]
             df     == dfs.frames[k]
         IN  /\ DOMAIN df.elapsed_sec = DOMAIN series
             /\ DOMAIN df.value = DOMAIN series
             /\ \A pos \in DOMAIN series :
                  /\ df.elapsed_sec[pos] =
                       Frac((pos - 1) * IntervalMs(self_data).n,
                            1000 * IntervalMs(self_data).d)
                  /\ float(df.value[pos]) = float(series[pos].value)
             /\ extract_metrics_timeseries(Retimed(self_data, Irregular))
                   .frames[k].elapsed_sec = df.elapsed_sec
             /\ extract_metrics_timeseries(Retimed(self_data, OnTheSecond))
                   .frames[k].elapsed_sec = df.elapsed_sec

\* Witness of C12: a session sampled every 500 ms whose series of two
\* samples carries raw timestamps 900 ms apart, so that the second sample
\* is 0.5 s on the elapsed-time axis.
C12_Witness ==
  /\ pc = "extract_metrics_timeseries"
  /\ ~dfs.is_none
  /\ Get(self_data, "interval", JInt(1000)) = JInt(500)
  /\ \E k \in DOMAIN dfs.frames :
       /\ Len(dfs.frames[k].elapsed_sec) = 2
       /\ dfs.frames[k].elapsed_sec[2] = Frac(1, 2)
       /\ dfs.frames[k].timestamp[2].epoch_ms
            - dfs.frames[k].timestamp[1].epoch_ms = 900
       /\ dfs.frames[k].value[1] # dfs.frames[k].value[2]

\* Witness of C12 for the default: a session without "interval" whose
\* irregular series gets elapsed times one second apart.
C12_DefaultIntervalWitness ==
  /\ pc = "extract_metrics_timeseries"
  /\ ~dfs.is_none
  /\ "interval" \notin DOMAIN self_data
  /\ \E k \in DOMAIN dfs.frames :
       /\ Len(dfs.frames[k].elapsed_sec) = 2
       /\ dfs.frames[k].elapsed_sec[2] = Frac(1, 1)
       /\ dfs.frames[k].timestamp[2].epoch_ms
            - dfs.frames[k].timestamp[1].epoch_ms = 900
====
